---- MODULE Spec2Model ----
(***************************************************************************)
(* Model of the notebook text-clustering-embedding-vs-prompting.ipynb:     *)
(* fetch articles, embed them, summarise them, cluster the embeddings with *)
(* K-Means and print the groups, then ask GPT-4 for a clustering and print *)
(* its answer.  The cells run in order; an exception raised in a cell      *)
(* stops the run (pc = "halted") with the kernel state left as it was.     *)
(***************************************************************************)
EXTENDS Integers, Sequences, FiniteSets, TLC

\* Largest number of articles fetched (the notebook's literal is 23).
MaxDocs == 3
\* Largest number of clusters asked for (the notebook's literal is 7).
MaxK == 3

\* What the external collaborators may return.
Titles == {"Doc A", "Doc B"}
Vecs == {1, 2}
Summaries == {"sum 1", "sum 2"}

VARIABLES
    nArticles,     \* range(23): how many articles the fetch loop asks for
    nClusters,     \* n_clusters=7 / range(7)
    pc,            \* the cell being run, "halted" after an exception, "done"
    i,             \* position of the running for-loop in articles (1-based)
    articles,      \* the global list of dicts
    inflight,      \* external calls issued and not yet returned
    error,         \* the exception that stopped the run, "none" otherwise
    kmeans,        \* the fitted KMeans object (<<>> before the fit)
    printed,       \* output of the K-Means cell: one group of lines per cluster
    llmState,      \* where the GPT-4 clustering cell is
    requestsSent,  \* number of GPT-4 clustering requests issued
    request,       \* messages of the GPT-4 clustering request (<<>> before)
    completion,    \* the response object of the GPT-4 clustering request
    clusters,      \* clusters = completion['choices'][0]['message']["content"]
    output         \* what print(clusters) wrote (<<>> before)

vars == <<nArticles, nClusters, pc, i, articles, inflight, error, kmeans,
          printed, llmState, requestsSent, request, completion, clusters,
          output>>

llmVars == <<llmState, requestsSent, request, completion, clusters, output>>
kmVars == <<kmeans, printed>>

\* dict lookup article[key]: Python raises KeyError when the key is absent.
Has(article, key) == key \in DOMAIN article

\* Mutant of SetKey: the article is rebound to a fresh dict holding the key.
SetKeyOnFreshDict(article, key, value) == [k \in {key} |-> value]

\* article[key] = value on a dict.
SetKey(article, key, value) ==
    [k \in DOMAIN article \cup {key} |-> IF k = key THEN value ELSE article[k]]

Init ==
    /\ nArticles \in 0..MaxDocs
    /\ nClusters \in 1..MaxK
    /\ pc = "fetch"
    /\ i = 1
    /\ articles = <<>>
    /\ inflight = {}
    /\ error = "none"
    /\ kmeans = <<>>
    /\ printed = <<>>
    /\ llmState = "Pending"
    /\ requestsSent = 0
    /\ request = <<>>
    /\ completion = <<>>
    /\ clusters = <<>>
    /\ output = <<>>

\* An exception propagates out of the running cell: the run stops.
Raise(exc) ==
    /\ pc' = "halted"
    /\ error' = exc
    /\ inflight' = {}

----------------------------------------------------------------------------
\* Cell 2: for _ in range(23): title, text = get_random_wikipedia_article_title()

FetchCall ==
    /\ pc = "fetch"
    /\ inflight = {}
    /\ Len(articles) < nArticles
    /\ inflight' = {[kind |-> "fetch", doc |-> Len(articles) + 1]}
    /\ UNCHANGED <<nArticles, nClusters, pc, i, articles, error, kmVars, llmVars>>

\* The page's text is soup.get_text(): it belongs to the page fetched.
PageText(title) == <<"text of", title>>

FetchReturn ==
    /\ pc = "fetch"
    /\ \E call \in inflight :
        /\ call.kind = "fetch"
        /\ \/ \E title \in Titles :
                /\ articles' = Append(articles, [title |-> title, text |-> PageText(title)])
                /\ inflight' = {}
                /\ UNCHANGED <<pc, error>>
           \/ /\ Raise("FetchError")
              /\ UNCHANGED articles
    /\ UNCHANGED <<nArticles, nClusters, i, kmVars, llmVars>>

FetchDone ==
    /\ pc = "fetch"
    /\ inflight = {}
    /\ Len(articles) = nArticles
    /\ pc' = "embed"
    /\ i' = 1
    /\ UNCHANGED <<nArticles, nClusters, articles, inflight, error, kmVars, llmVars>>

----------------------------------------------------------------------------
\* Cell 4: for article in articles: article["embedding"] = Embedding.create(...)

EmbedCall ==
    /\ pc = "embed"
    /\ inflight = {}
    /\ i <= Len(articles)
    /\ inflight' = {[kind |-> "embed", doc |-> i]}
    /\ UNCHANGED <<nArticles, nClusters, pc, i, articles, error, kmVars, llmVars>>

EmbedReturn ==
    /\ pc = "embed"
    /\ \E call \in inflight :
        /\ call.kind = "embed"
        /\ \/ \E v \in Vecs :
                /\ articles' = [articles EXCEPT ![call.doc] = SetKey(@, "embedding", v)]
                /\ i' = i + 1
                /\ inflight' = {}
                /\ UNCHANGED <<pc, error>>
           \/ /\ Raise("ProviderError")
              /\ UNCHANGED <<articles, i>>
    /\ UNCHANGED <<nArticles, nClusters, kmVars, llmVars>>

EmbedDone ==
    /\ pc = "embed"
    /\ inflight = {}
    /\ i > Len(articles)
    /\ pc' = "summarize"
    /\ i' = 1
    /\ UNCHANGED <<nArticles, nClusters, articles, inflight, error, kmVars, llmVars>>

----------------------------------------------------------------------------
\* Cell 5: for article in articles: article["summary"] = ChatCompletion.create(...)

SummarizeCall ==
    /\ pc = "summarize"
    /\ inflight = {}
    /\ i <= Len(articles)
    /\ inflight' = {[kind |-> "summarize", doc |-> i]}
    /\ UNCHANGED <<nArticles, nClusters, pc, i, articles, error, kmVars, llmVars>>

SummarizeReturn ==
    /\ pc = "summarize"
    /\ \E call \in inflight :
        /\ call.kind = "summarize"
        /\ \/ \E s \in Summaries :
                /\ articles' = [articles EXCEPT ![call.doc] = SetKey(@, "summary", s)]
                /\ i' = i + 1
                /\ inflight' = {}
                /\ UNCHANGED <<pc, error>>
           \/ /\ Raise("ProviderError")
              /\ UNCHANGED <<articles, i>>
    /\ UNCHANGED <<nArticles, nClusters, kmVars, llmVars>>

SummarizeDone ==
    /\ pc = "summarize"
    /\ inflight = {}
    /\ i > Len(articles)
    /\ pc' = "kmeans"
    /\ i' = 1
    /\ UNCHANGED <<nArticles, nClusters, articles, inflight, error, kmVars, llmVars>>

----------------------------------------------------------------------------
\* Cell 6: KMeans(n_clusters=7, random_state=0, n_init=10).fit(embeddings)
\* and the print loop.

\* embeddings = np.array([article["embedding"] for article in articles])
Embeddings(arts) == [j \in 1..Len(arts) |-> arts[j]["embedding"]]

\* The models fit() may return for embeddings X and K clusters.  A fitted
\* model assigns a vector to its nearest centre, so it is a function of the
\* vector alone: equal vectors get the same cluster.  K-Means seeds its
\* centres on distinct points and re-seeds a centre that lost all its points,
\* so the fit uses K clusters when X holds K distinct vectors, and one
\* cluster per distinct vector when it holds fewer.
Fits(X, K) ==
    LET D == {X[j] : j \in 1..Len(X)}
    IN  {f \in [D -> 0..(K - 1)] :
            Cardinality({f[v] : v \in D}) =
                (IF K < Cardinality(D) THEN K ELSE Cardinality(D))}

\* Mutant of FitAccepts: fit() takes any input.
FitAcceptsAnyInput(X, K) == TRUE

\* fit() refuses fewer samples than clusters (and an empty array) with a
\* ValueError.
FitAccepts(X, K) == Len(X) >= 1 /\ Len(X) >= K

FitKMeans ==
    /\ pc = "kmeans"
    /\ LET X == Embeddings(articles)
       IN IF FitAccepts(X, nClusters)
          THEN /\ \E f \in Fits(X, nClusters) : kmeans' = f
               /\ pc' = "print"
               /\ UNCHANGED <<error, inflight>>
          ELSE /\ Raise("ValueError")
               /\ UNCHANGED kmeans
    /\ UNCHANGED <<nArticles, nClusters, i, articles, printed, llmVars>>

\* kmeans.predict([article["embedding"]])[0]
Predict(model, v) == model[v]

\* Mutant of ClusterRange: for cluster in range(1, 8).
ClusterRangeFromOne(K) == 1..K

\* for cluster in range(7)
ClusterRange(K) == 0..(K - 1)

\* The lines the inner loop prints for one cluster, over the first n
\* articles: " - {title}" for every article predicted into the cluster.
RECURSIVE ClusterLines(_, _, _, _)
ClusterLines(arts, model, cluster, n) ==
    IF n = 0 THEN <<>>
    ELSE ClusterLines(arts, model, cluster, n - 1) \o
         (IF Predict(model, arts[n]["embedding"]) = cluster
          THEN <<[doc |-> n, title |-> arts[n]["title"]]>>
          ELSE <<>>)

\* The groups in the order printed: "Cluster {cluster + 1}" and its lines.
RECURSIVE PrintLoop(_, _, _)
PrintLoop(arts, model, clusterIds) ==
    IF clusterIds = {} THEN <<>>
    ELSE LET c == CHOOSE x \in clusterIds : \A y \in clusterIds : x <= y
         IN  <<[cluster |-> c + 1, lines |-> ClusterLines(arts, model, c, Len(arts))]>>
             \o PrintLoop(arts, model, clusterIds \ {c})

PrintClusters ==
    /\ pc = "print"
    /\ printed' = PrintLoop(articles, kmeans, ClusterRange(nClusters))
    /\ pc' = "llm"
    /\ UNCHANGED <<nArticles, nClusters, i, articles, inflight, error, kmeans, llmVars>>

----------------------------------------------------------------------------
\* Cell 9: the GPT-4 clustering request, clusters = ..., print(clusters).

\* The system message.
SystemInstruction == "You are an expert encyclopedia editor. ..."

\* The fixed head of the user message, ending in the output format.
FormatInstruction == "The following are titles and summaries ... etc...\n\n\n"

\* f"Title: {article['title']}\nSummary: {article['summary']}\n\n"
ArticleBlock(article) ==
    <<"Title: ", article["title"], "\nSummary: ", article["summary"], "\n\n">>

\* sep.join(blocks), as the sequence of the pieces of the joined string.
RECURSIVE Join(_, _)
Join(blocks, sep) ==
    IF Len(blocks) = 0 THEN <<>>
    ELSE IF Len(blocks) = 1 THEN blocks[1]
    ELSE blocks[1] \o <<sep>> \o Join(Tail(blocks), sep)

\* Mutant of ArticleBlocks: the articles are taken in reverse.
ArticleBlocksReversed(arts) ==
    [j \in 1..Len(arts) |-> ArticleBlock(arts[Len(arts) + 1 - j])]

\* "\n".join(f"Title: ..." for article in articles)
ArticleBlocks(arts) == [j \in 1..Len(arts) |-> ArticleBlock(arts[j])]

\* messages=[{"role": "system", ...}, {"role": "user", ...}]
BuildMessages(arts) ==
    <<[role |-> "system", content |-> <<SystemInstruction>>],
      [role |-> "user",
       content |-> <<FormatInstruction>> \o Join(ArticleBlocks(arts), "\n")]>>

\* Lines of a response text.
Header(n, label) == [kind |-> "header", n |-> n, text |-> label]
Bullet(title) == [kind |-> "bullet", n |-> 0, text |-> title]
Blank == [kind |-> "blank", n |-> 0, text |-> ""]
Prose(text) == [kind |-> "prose", n |-> 0, text |-> text]

\* Texts GPT-4 may answer with: it is free text, whatever the prompt asked.
SampleResponse ==
    <<Header(1, "Test"), Bullet("Doc A"), Bullet("Doc B"), Blank,
      Header(2, "Other"), Bullet("Doc C")>>
UnknownTitleResponse ==
    <<Header(1, "Test"), Bullet("Doc A"), Bullet("Doc Z"), Blank,
      Header(2, "Other"), Bullet("Doc B")>>
OneClusterResponse ==
    <<Header(1, "Test"), Bullet("Doc A"), Bullet("Doc B")>>
DuplicateResponse ==
    <<Header(1, "Test"), Bullet("Doc A"), Bullet("Doc B"), Blank,
      Header(2, "Other"), Bullet("Doc A")>>
ProseResponse == <<Prose("I could not cluster these articles.")>>

ResponseTexts ==
    {SampleResponse, UnknownTitleResponse, OneClusterResponse,
     DuplicateResponse, ProseResponse}

\* Response objects of the service: a choice with a message holding
\* "content", or (a filtered answer) a message without it.
Completions ==
    {[choices |-> <<[message |-> [role |-> "assistant", content |-> t]]>>] :
        t \in ResponseTexts}
    \cup {[choices |-> <<[message |-> [role |-> "assistant"]]>>]}

SendClusterRequest ==
    /\ pc = "llm"
    /\ llmState = "Pending"
    /\ inflight = {}
    /\ request' = BuildMessages(articles)
    /\ requestsSent' = requestsSent + 1
    /\ inflight' = {[kind |-> "cluster", doc |-> 0]}
    /\ llmState' = "RequestSent"
    /\ UNCHANGED <<nArticles, nClusters, pc, i, articles, error, kmVars,
                   completion, clusters, output>>

\* Mutant of ReceiveClusterResponse: a failed request is sent again.
ReceiveClusterResponseWithRetry ==
    /\ pc = "llm"
    /\ llmState = "RequestSent"
    /\ \E call \in inflight :
        /\ call.kind = "cluster"
        /\ \/ \E c \in Completions :
                /\ completion' = c
                /\ llmState' = "ResponseReceived"
                /\ inflight' = {}
                /\ UNCHANGED requestsSent
           \/ /\ requestsSent < 3
              /\ requestsSent' = requestsSent + 1
              /\ UNCHANGED <<completion, llmState, inflight>>
    /\ UNCHANGED <<nArticles, nClusters, pc, i, articles, error, kmVars,
                   request, clusters, output>>

ReceiveClusterResponse ==
    /\ pc = "llm"
    /\ llmState = "RequestSent"
    /\ \E call \in inflight :
        /\ call.kind = "cluster"
        /\ \/ \E c \in Completions :
                /\ completion' = c
                /\ llmState' = "ResponseReceived"
                /\ inflight' = {}
                /\ UNCHANGED <<pc, error>>
           \/ /\ Raise("ProviderError")
              /\ UNCHANGED <<completion, llmState>>
    /\ UNCHANGED <<nArticles, nClusters, i, articles, kmVars, requestsSent,
                   request, clusters, output>>

\* clusters = completion['choices'][0]['message']["content"]
ExtractContent ==
    /\ pc = "llm"
    /\ llmState = "ResponseReceived"
    /\ LET message == completion["choices"][1]["message"]
       IN IF Has(message, "content")
          THEN /\ clusters' = message["content"]
               /\ llmState' = "Parsed"
               /\ UNCHANGED <<pc, error, inflight>>
          ELSE /\ Raise("KeyError")
               /\ llmState' = "ParseFailed"
               /\ UNCHANGED clusters
    /\ UNCHANGED <<nArticles, nClusters, i, articles, kmVars, requestsSent,
                   request, completion, output>>

\* print(clusters)
PrintResponse ==
    /\ pc = "llm"
    /\ llmState = "Parsed"
    /\ output' = clusters
    /\ pc' = "done"
    /\ UNCHANGED <<nArticles, nClusters, i, articles, inflight, error, kmVars,
                   llmState, requestsSent, request, completion, clusters>>

----------------------------------------------------------------------------
Next ==
    \/ FetchCall \/ FetchReturn \/ FetchDone
    \/ EmbedCall \/ EmbedReturn \/ EmbedDone
    \/ SummarizeCall \/ SummarizeReturn \/ SummarizeDone
    \/ FitKMeans \/ PrintClusters
    \/ SendClusterRequest \/ ReceiveClusterResponse
    \/ ExtractContent \/ PrintResponse

Spec == Init /\ [][Next]_vars

----------------------------------------------------------------------------
\* What the claims speak of.

\* The K-Means cell has run to its end (the print loop included).
KMeansCellDone == pc \in {"llm", "done"} \/ (pc = "halted" /\ requestsSent > 0)

\* How many printed lines are the line of document d.
Occurrences(d) ==
    Cardinality({gl \in (1..Len(printed)) \X (1..Len(articles)) :
                    /\ gl[2] <= Len(printed[gl[1]].lines)
                    /\ printed[gl[1]].lines[gl[2]].doc = d})

\* The printed groups are exactly K, numbered 1..K, every line is the title
\* of an input document, and every document has exactly one line.
GroupsPartitionDocuments ==
    /\ Len(printed) = nClusters
    /\ \A g \in 1..Len(printed) :
        /\ printed[g].cluster = g
        /\ \A l \in 1..Len(printed[g].lines) :
            LET line == printed[g].lines[l]
            IN  line.doc \in 1..Len(articles) /\ line.title = articles[line.doc]["title"]
    /\ \A d \in 1..Len(articles) : Occurrences(d) = 1

AllGroupsNonEmpty == \A g \in 1..Len(printed) : printed[g].lines # <<>>

C6_TooFewDocumentsRejected ==
    /\ [][(pc = "kmeans" /\ (nClusters > Len(articles) \/ Len(articles) = 0))
            => (pc' = "halted" /\ error' = "ValueError"
                /\ kmeans' = <<>> /\ printed' = <<>>)]_vars
    /\ []((nClusters > Len(articles) \/ Len(articles) = 0)
            => (printed = <<>> /\ pc \notin {"print", "llm", "done"}))

\* Two documents, three clusters asked for: the fit was refused.
C6_Witness ==
    /\ pc = "halted"
    /\ error = "ValueError"
    /\ Len(articles) = 2
    /\ nClusters = 3
    /\ printed = <<>>

\* The transitions of the clustering request the claim allows.
LlmEdges ==
    {<<"Pending", "RequestSent">>, <<"RequestSent", "ResponseReceived">>,
     <<"ResponseReceived", "Parsed">>, <<"ResponseReceived", "ParseFailed">>}

BlockCount(content) == Len(content) \div 6
PairsOf(content) ==
    [j \in 1..BlockCount(content) |->
        <<content[6 * (j - 1) + 3], content[6 * (j - 1) + 5]>>]
BlocksWellFormed(content) ==
    /\ Len(content) = (IF BlockCount(content) = 0 THEN 1 ELSE 6 * BlockCount(content))
    /\ \A j \in 1..BlockCount(content) :
        /\ content[6 * (j - 1) + 2] = "Title: "
        /\ content[6 * (j - 1) + 4] = "\nSummary: "
        /\ content[6 * (j - 1) + 6] = "\n\n"
        /\ (j > 1 => content[6 * (j - 1) + 1] = "\n")

\* C9: one request is sent; its user message is the format instruction
\* followed by the (title, summary) pair of every article, once each, in the
\* order of the list.
C9_RequestHoldsEveryPairInOrder ==
    (llmState # "Pending") =>
        /\ requestsSent = 1
        /\ Len(request) = 2
        /\ request[1].role = "system"
        /\ request[2].role = "user"
        /\ request[2].content[1] = FormatInstruction
        /\ BlocksWellFormed(request[2].content)
        /\ PairsOf(request[2].content) =
              [j \in 1..Len(articles) |->
                  <<articles[j]["title"], articles[j]["summary"]>>]

\* A request for three articles that differ in title and in summary.
C9_Witness ==
    /\ llmState = "RequestSent"
    /\ Len(articles) = 3
    /\ articles[1]["title"] # articles[3]["title"]
    /\ articles[1]["summary"] # articles[2]["summary"]

\* C10: text, then embedding, then summary; a field once written stays as
\* it is; the list grows only in the fetch loop, by appending; at most one
\* external call is in flight.
C10_SequentialImmutableDocuments ==
    /\ [](\A j \in 1..Len(articles) :
            /\ Has(articles[j], "title") /\ Has(articles[j], "text")
            /\ (Has(articles[j], "summary") => Has(articles[j], "embedding")))
    /\ [](Cardinality(inflight) <= 1)
    /\ [][/\ Len(articles') >= Len(articles)
          /\ \A j \in 1..Len(articles) : \A k \in DOMAIN articles[j] :
                k \in DOMAIN articles'[j] /\ articles'[j][k] = articles[j][k]
          /\ (Len(articles') # Len(articles) =>
                (pc = "fetch" /\ Len(articles') = Len(articles) + 1))]_vars

\* Every field of three documents is populated.
C10_Witness ==
    /\ Len(articles) = 3
    /\ \A j \in 1..3 : Has(articles[j], "embedding") /\ Has(articles[j], "summary")
    /\ pc = "kmeans"

----------------------------------------------------------------------------
\* The parsing and validation the specification asks of the GPT-4 path.

InputTitles == {articles[j]["title"] : j \in 1..Len(articles)}

HeaderPositions(text) == {p \in 1..Len(text) : text[p].kind = "header"}

\* Every line is a header, a bullet or blank, and the first one is a header.
WellFormed(text) ==
    /\ Len(text) > 0
    /\ text[1].kind = "header"
    /\ \A p \in 1..Len(text) : text[p].kind \in {"header", "bullet", "blank"}

\* The titles of the bullets of text[from..to], in order.
RECURSIVE BulletTitles(_, _, _)
BulletTitles(text, from, to) ==
    IF from > to THEN <<>>
    ELSE (IF text[from].kind = "bullet" THEN <<text[from].text>> ELSE <<>>)
         \o BulletTitles(text, from + 1, to)

\* The last line of the cluster opened by the header at position p.
ClusterEnd(text, p) ==
    LET later == {q \in HeaderPositions(text) : q > p}
    IN  IF later = {} THEN Len(text)
        ELSE (CHOOSE q \in later : \A r \in later : q <= r) - 1

\* cluster_id -> {label, member titles}
ParseResponse(text) ==
    [n \in {text[p].n : p \in HeaderPositions(text)} |->
        LET p == CHOOSE q \in HeaderPositions(text) : text[q].n = n
        IN  [label |-> text[p].text,
             members |-> BulletTitles(text, p + 1, ClusterEnd(text, p))]]

\* In how many bullets of the text a title is listed.
Assignments(text, title) ==
    Cardinality({p \in 1..Len(text) :
                    text[p].kind = "bullet" /\ text[p].text = title})

\* A title of the input is in no cluster or in several, or fewer than K
\* clusters are listed.
ViolatesConstraints(text) ==
    \/ \E t \in InputTitles : Assignments(text, t) # 1
    \/ Cardinality(HeaderPositions(text)) < nClusters

\* C2: a response in the asked format that leaves a title unassigned,
\* assigns one twice or lists fewer than K clusters ends in a
\* ConstraintViolation, never in success.
C2_ConstraintViolationSurfaced ==
    (/\ llmState = "Parsed"
     /\ pc \in {"done", "halted"}
     /\ WellFormed(clusters)
     /\ ViolatesConstraints(clusters))
        => (error = "ConstraintViolation" /\ pc = "halted")

\* C3: a well-formed response is parsed into cluster_id -> {label, members};
\* the sample response gives {1: Test [Doc A, Doc B], 2: Other [Doc C]}.
C3_WellFormedResponseParsed ==
    (pc = "done" /\ WellFormed(completion["choices"][1]["message"]["content"]))
        => /\ output = ParseResponse(completion["choices"][1]["message"]["content"])
           /\ (completion["choices"][1]["message"]["content"] = SampleResponse
                 => output = (1 :> [label |-> "Test", members |-> <<"Doc A", "Doc B">>]
                              @@ 2 :> [label |-> "Other", members |-> <<"Doc C">>]))

\* C5: a bullet naming no input title is reported as a ReferenceError and
\* left out of the result, which keeps the other assignments.
C5_UnknownTitleExcluded ==
    (pc = "done") =>
        \A p \in 1..Len(output) :
            output[p].kind = "bullet" => output[p].text \in InputTitles

\* C7: a provider failure on one document does not stop the loop: when the
\* run has ended on a provider error of the embedding or summarisation loop,
\* every other document has been processed by that loop.
C7_ProviderFailureDoesNotAbortBatch ==
    (pc = "halted" /\ error = "ProviderError" /\ requestsSent = 0) =>
        LET key == IF Has(articles[i], "embedding") THEN "summary" ELSE "embedding"
        IN  \A j \in 1..Len(articles) : j # i => Has(articles[j], key)

====
